---- MODULE Spec2Model ----
(***************************************************************************)
(* Model of typecheck.py: terms, substitutions, contexts, unification and  *)
(* inference of a small dependently typed lambda calculus.                 *)
(*                                                                         *)
(* A term is a record [tag, name, val, kids]:                              *)
(*   Var(name)                  tag "Var",  name                           *)
(*   TypeConstructor(name,args) tag "Con",  name, kids = args              *)
(*   DependantType(p,term,body) tag "Dep",  name = p, kids = <<term,body>> *)
(*   Nat(value)                 tag "Nat",  val                            *)
(*   Abstraction(p,type,body)   tag "Abs",  name = p, kids = <<type,body>> *)
(*   Application(func,arg)      tag "App",  kids = <<func,arg>>            *)
(*   WildCard()                 tag "Wild"                                 *)
(* Python's None (what a function returns when no branch matches) is the   *)
(* record with tag "None".                                                 *)
(***************************************************************************)
EXTENDS Integers, Sequences, FiniteSets, TLC

VARIABLES
    var_count,  \* Var.var_count, the process-wide fresh-name counter
    term,       \* the term handed to infer
    context,    \* the mapping of the Context handed to infer
    result,     \* what the first infer call on (term, context) returned
    result2,    \* what a second infer call on the same input returned
    fresh,      \* names generated by Var() so far in this process, in order
    t1, t2,     \* the two operands handed to unify
    r12, r21,   \* unify(t1, t2) and unify(t2, t1)
    rcon,       \* unify of the two operands rebuilt as TypeConstructors
    s1, s2,     \* two substitutions
    tx,         \* the term a substitution is applied to
    applied,    \* results of the substitution calls
    pc          \* position of the driver

vars == <<var_count, term, context, result, result2, fresh,
          t1, t2, r12, r21, rcon, s1, s2, tx, applied, pc>>

inferVars == <<var_count, term, context, result, result2, fresh>>
unifyVars == <<t1, t2, r12, r21, rcon>>
substVars == <<s1, s2, tx, applied>>

-----------------------------------------------------------------------------
(* Bounds *)

MaxLit == 1        \* Nat literals range over 0..MaxLit
MaxCount == 6      \* infer is not started once var_count has reached this

-----------------------------------------------------------------------------
(* Term representation *)

NoneVal == [tag |-> "None", name |-> "", val |-> 0, kids |-> <<>>]

Var(name) == [tag |-> "Var", name |-> name, val |-> 0, kids |-> <<>>]

TypeConstructor(name, args) ==
    [tag |-> "Con", name |-> name, val |-> 0, kids |-> args]

DependantType(param, trm, body) ==
    [tag |-> "Dep", name |-> param, val |-> 0, kids |-> <<trm, body>>]

NatTerm(value) == [tag |-> "Nat", name |-> "", val |-> value, kids |-> <<>>]

Abstraction(param, type, body) ==
    [tag |-> "Abs", name |-> param, val |-> 0, kids |-> <<type, body>>]

Application(func, arg) ==
    [tag |-> "App", name |-> "", val |-> 0, kids |-> <<func, arg>>]

WildCard == [tag |-> "Wild", name |-> "", val |-> 0, kids |-> <<>>]

Arrow(l, r) == TypeConstructor("->", <<l, r>>)

-----------------------------------------------------------------------------
(* Fresh names: Var.__init__ with no name *)

Digit(d) ==
    CASE d = 0 -> "0" [] d = 1 -> "1" [] d = 2 -> "2" [] d = 3 -> "3"
      [] d = 4 -> "4" [] d = 5 -> "5" [] d = 6 -> "6" [] d = 7 -> "7"
      [] d = 8 -> "8" [] d = 9 -> "9"

RECURSIVE DecStr(_)
DecStr(n) == IF n < 10 THEN Digit(n) ELSE DecStr(n \div 10) \o Digit(n % 10)

StuckCount(cnt) == cnt

NextCount(cnt) == cnt + 1

FreshName(cnt) == "t" \o DecStr(cnt)

\* Var(): the counter is incremented first, the name is made from the new value
VarInit(cnt) == [v |-> Var(FreshName(NextCount(cnt))), cnt |-> NextCount(cnt)]

-----------------------------------------------------------------------------
(* Substitution *)

\* Substitution(): the empty mapping
EmptySub == [k \in {} |-> NoneVal]

Single(name, trm) == [k \in {name} |-> trm]

\* Substitution.__call__ on a term; a term of a variant no branch tests
\* (Abstraction, WildCard) falls off the end of the method, which returns None
RECURSIVE Apply(_, _)
Apply(s, x) ==
    CASE x.tag = "Var" -> IF x.name \in DOMAIN s THEN s[x.name] ELSE x
      [] x.tag = "Con" ->
            TypeConstructor(x.name, [i \in 1..Len(x.kids) |-> Apply(s, x.kids[i])])
      [] x.tag = "Dep" ->
            DependantType(x.name, Apply(s, x.kids[1]), Apply(s, x.kids[2]))
      [] x.tag = "Nat" -> x
      [] x.tag = "App" -> Application(Apply(s, x.kids[1]), Apply(s, x.kids[2]))
      [] OTHER -> NoneVal

ComposeRaw(self, x) ==
    [k \in DOMAIN self \cup DOMAIN x |-> IF k \in DOMAIN x THEN x[k] ELSE self[k]]

\* Substitution.__call__ on a Substitution x: copy self.mapping, then
\* s[k] = self(v) for every entry of x
Compose(self, x) ==
    [k \in DOMAIN self \cup DOMAIN x |->
        IF k \in DOMAIN x THEN Apply(self, x[k]) ELSE self[k]]

\* dict |= dict: entries of the right operand overwrite
DictUpdate(d, e) ==
    [k \in DOMAIN d \cup DOMAIN e |-> IF k \in DOMAIN e THEN e[k] ELSE d[k]]

-----------------------------------------------------------------------------
(* Unification.  The outcome is [ok, map]; ok = FALSE is the None return. *)

Some(m) == [ok |-> TRUE, map |-> m]
NoUnifier == [ok |-> FALSE, map |-> EmptySub]

\* the accumulator step of the constructor rule: s = s(result)
ConFold(s, res) == Compose(s, res)

\* the accumulator step of the application rule: s = result(s)
AppFold(s, res) == Compose(res, s)

RECURSIVE unify(_, _)
RECURSIVE UnifyArgs(_, _, _, _)

\* the loop over zip(t1.args, t2.args), from pair i on, with accumulator s
UnifyArgs(a1, a2, i, s) ==
    IF i > Len(a1) \/ i > Len(a2) THEN Some(s)
    ELSE LET res == unify(a1[i], a2[i])
         IN IF ~res.ok THEN NoUnifier
            ELSE UnifyArgs(a1, a2, i + 1, ConFold(s, res.map))

VarLeftDropped(a, b) == NoUnifier

\* if isinstance(t1, Var): return unify(t2, t1)
VarLeft(a, b) == unify(b, a)

unify(a, b) ==
    IF b.tag = "Wild" \/ a.tag = "Wild" THEN Some(EmptySub)
    ELSE IF a.tag = "Var" /\ b.tag = "Var" /\ a.name = b.name THEN Some(EmptySub)
    ELSE IF b.tag = "Var" THEN Some(Single(b.name, a))
    ELSE IF a.tag = "Var" THEN VarLeft(a, b)
    ELSE IF a.tag = "Con" /\ b.tag = "Con" THEN
        IF a.name # b.name THEN NoUnifier
        ELSE IF Len(a.kids) # Len(b.kids) THEN NoUnifier
        ELSE UnifyArgs(a.kids, b.kids, 1, EmptySub)
    ELSE IF a.tag = "Dep" /\ b.tag = "Dep" THEN
        LET ra == unify(a.kids[1], b.kids[1])
        IN IF ~ra.ok THEN NoUnifier
           ELSE LET rb == unify(a.kids[2], b.kids[2])
                IN IF ~rb.ok THEN NoUnifier
                   ELSE Some(DictUpdate(DictUpdate(EmptySub, ra.map), rb.map))
    ELSE IF a.tag = "Nat" /\ b.tag = "Nat" THEN
        IF a.val # b.val THEN NoUnifier ELSE Some(EmptySub)
    ELSE IF a.tag = "Abs" /\ b.tag = "Abs" THEN unify(a.kids[2], b.kids[2])
    ELSE IF a.tag = "App" /\ b.tag = "App" THEN
        LET ra == unify(a.kids[1], b.kids[1])
        IN IF ~ra.ok THEN NoUnifier
           ELSE LET sa == AppFold(EmptySub, ra.map)
                    rb == unify(a.kids[2], b.kids[2])
                IN IF ~rb.ok THEN NoUnifier
                   ELSE Some(AppFold(sa, rb.map))
    ELSE NoUnifier

-----------------------------------------------------------------------------
(* Context *)

Type == TypeConstructor("Type", <<>>)
NatType == TypeConstructor("Nat", <<>>)
BoolType == TypeConstructor("Bool", <<>>)

Builtins ==
    [k \in {"Nat", "true", "false", "Bool"} |->
        CASE k = "Nat" -> Type
          [] k = "true" -> BoolType
          [] k = "false" -> BoolType
          [] k = "Bool" -> Type]

\* Context.__init__: the four built-in names are (re)assigned in the mapping
\* it is given, whatever that mapping held for them
ContextInit(mapping) == DictUpdate(mapping, Builtins)

\* Context(context.mapping.copy()): the context a binder works in
EnterBinder(ctx) == ContextInit(ctx)

\* context.mapping[param] = classifier
Bind(ctx, param, classifier) == DictUpdate(ctx, Single(param, classifier))

-----------------------------------------------------------------------------
(* Inference.  infer returns                                               *)
(*   ok, msg, sub, typ : the InferenceResult (an error string, or the pair *)
(*                       of a Substitution and a classifier)               *)
(*   cnt               : Var.var_count when the call returns               *)
(*   fresh             : the names Var() generated during the call         *)
(*   enters            : for every binder body inferred during the call,   *)
(*                       the context the binder was given (outer), its     *)
(*                       parameter, and the context its body was inferred  *)
(*                       in (inner)                                        *)

NoMsg == [text |-> "", name |-> "", left |-> NoneVal, right |-> NoneVal]

NotFound(name) ==
    [text |-> "not found: ", name |-> name, left |-> NoneVal, right |-> NoneVal]

Unbound(name) ==
    [text |-> "Unbound variable: ", name |-> name,
     left |-> NoneVal, right |-> NoneVal]

FailedUnification(l, r) ==
    [text |-> "Failed unification of function types: ", name |-> "",
     left |-> l, right |-> r]

Ok(s, t, cnt, fr, en) ==
    [ok |-> TRUE, msg |-> NoMsg, sub |-> s, typ |-> t,
     cnt |-> cnt, fresh |-> fr, enters |-> en]

Err(m, cnt, fr, en) ==
    [ok |-> FALSE, msg |-> m, sub |-> EmptySub, typ |-> NoneVal,
     cnt |-> cnt, fresh |-> fr, enters |-> en]

Entry(outer, param, inner) ==
    [outer |-> outer, param |-> param, inner |-> inner]

AppTypeUnapplied(s3, beta) == beta

\* the classifier an Application returns: s3(beta)
AppType(s3, beta) == Apply(s3, beta)

\* the substitution an Application returns: s3(s2(s1))
AppSub(s3, sa, sf) == Compose(s3, Compose(sa, sf))

RECURSIVE infer(_, _, _)
infer(x, ctx, cnt) ==
    CASE x.tag = "Con" ->
            IF x.name \notin DOMAIN ctx \/ ctx[x.name] = NoneVal
            THEN Err(NotFound(x.name), cnt, <<>>, {})
            ELSE Ok(EmptySub, ctx[x.name], cnt, <<>>, {})
      [] x.tag = "Nat" -> Ok(EmptySub, NatType, cnt, <<>>, {})
      [] x.tag = "Var" ->
            IF x.name \in DOMAIN ctx
            THEN Ok(EmptySub, ctx[x.name], cnt, <<>>, {})
            ELSE Err(Unbound(x.name), cnt, <<>>, {})
      [] x.tag = "Abs" ->
            LET inner == Bind(EnterBinder(ctx), x.name, x.kids[1])
                rb == infer(x.kids[2], inner, cnt)
                en == {Entry(ctx, x.name, inner)} \cup rb.enters
            IN IF ~rb.ok THEN Err(rb.msg, rb.cnt, rb.fresh, en)
               ELSE Ok(rb.sub, Arrow(x.kids[1], rb.typ), rb.cnt, rb.fresh, en)
      [] x.tag = "App" ->
            LET rf == infer(x.kids[1], ctx, cnt)
            IN IF ~rf.ok THEN rf
               ELSE
               LET ra == infer(x.kids[2], ctx, rf.cnt)
                   fr == rf.fresh \o ra.fresh
                   en == rf.enters \cup ra.enters
               IN IF ~ra.ok THEN Err(ra.msg, ra.cnt, fr, en)
                  ELSE
                  LET nv == VarInit(ra.cnt)
                      beta == nv.v
                      fn == Arrow(ra.typ, beta)
                      s3 == unify(rf.typ, fn)
                      frb == fr \o <<beta.name>>
                  IN IF ~s3.ok
                     THEN Err(FailedUnification(rf.typ, fn), nv.cnt, frb, en)
                     ELSE Ok(AppSub(s3.map, ra.sub, rf.sub),
                             AppType(s3.map, beta), nv.cnt, frb, en)
      [] x.tag = "Dep" ->
            LET copy == EnterBinder(ctx)
                rt == infer(x.kids[1], copy, cnt)
            IN IF ~rt.ok THEN rt
               ELSE
               LET inner == Bind(copy, x.name, rt.typ)
                   rb == infer(x.kids[2], inner, rt.cnt)
                   fr == rt.fresh \o rb.fresh
                   en == rt.enters \cup {Entry(ctx, x.name, inner)} \cup rb.enters
               IN IF ~rb.ok THEN Err(rb.msg, rb.cnt, fr, en)
                  ELSE Ok(Compose(rb.sub, rt.sub),
                          DependantType(x.name, rt.typ, rb.typ), rb.cnt, fr, en)
      [] x.tag = "Wild" ->
            LET nv == VarInit(cnt)
            IN Ok(EmptySub, nv.v, nv.cnt, <<nv.v.name>>, {})

\* the InferenceResult alone
Outcome(r) == [ok |-> r.ok, msg |-> r.msg, sub |-> r.sub, typ |-> r.typ]

-----------------------------------------------------------------------------
(* Inputs of the inference runs *)

Lits == {NatTerm(n) : n \in 0..MaxLit}

ScenarioC == Application(Abstraction("x", NatType, Var("x")), NatTerm(MaxLit))
ScenarioD == Application(Abstraction("x", BoolType, Var("x")), NatTerm(MaxLit))
ScenarioE == DependantType("x", NatTerm(MaxLit), Var("x"))

IAtoms == Lits \cup {Var("x"), Var("t1"), Var("true"), WildCard, BoolType}

IParams == {"x", "true"}

IBodies == {Var("x"), Var("true"), WildCard}

IApps == {Application(f, a) : f \in {Var("f"), Var("x"), WildCard}, a \in IAtoms}

IAbs == {Abstraction(p, ty, b) : p \in IParams, ty \in {NatType, BoolType},
                                 b \in IBodies}

IDeps == {DependantType(p, a, b) : p \in IParams,
                                   a \in {NatTerm(0), Var("x"), WildCard},
                                   b \in IBodies}

INested ==
    {ScenarioC, ScenarioD, ScenarioE}
    \cup {Abstraction(p, NatType, Abstraction("y", BoolType, b)) :
             p \in IParams, b \in {Var("true"), Var("x")}}
    \cup {DependantType(p, NatTerm(0), DependantType("y", WildCard, Var(p))) :
             p \in IParams}
    \cup {Application(Application(Var("f"), l), a) : l \in Lits, a \in {Var("x"), WildCard}}
    \cup {Application(WildCard, Application(WildCard, WildCard))}

InferTerms == IAtoms \cup IApps \cup IAbs \cup IDeps \cup INested

\* Context({}) and two contexts a declaration pass has added bindings to
BuiltinContext == ContextInit(EmptySub)

InferContexts ==
    {BuiltinContext,
     DictUpdate(BuiltinContext,
                [k \in {"x", "f"} |-> IF k = "x" THEN NatType
                                      ELSE Arrow(NatType, BoolType)]),
     DictUpdate(BuiltinContext,
                [k \in {"x", "f", "t1"} |->
                    IF k = "x" THEN Var("t1")
                    ELSE IF k = "f" THEN Var("a") ELSE NatType])}

-----------------------------------------------------------------------------
(* Inference runs: a driver infers the loaded term, may infer it again, and *)
(* loads another term; Var.var_count lives as long as the process.          *)

Started(cnt, r) == [start |-> cnt, r |-> r]

Unset == Started(0, Err(NoMsg, 0, <<>>, {}))

UnifyIdle ==
    /\ t1 = NoneVal /\ t2 = NoneVal
    /\ r12 = NoUnifier /\ r21 = NoUnifier /\ rcon = NoUnifier

SubstIdle ==
    /\ s1 = EmptySub /\ s2 = EmptySub /\ tx = NoneVal
    /\ applied = [empty |-> NoneVal, turn |-> NoneVal, comp |-> NoneVal]

InferIdle ==
    /\ var_count = 0 /\ term = NoneVal /\ context = EmptySub
    /\ result = Unset /\ result2 = Unset /\ fresh = <<>>

Init ==
    /\ var_count = 0
    /\ term \in InferTerms
    /\ context \in InferContexts
    /\ result = Unset /\ result2 = Unset
    /\ fresh = <<>>
    /\ pc = "ready"
    /\ UnifyIdle /\ SubstIdle

Infer ==
    /\ pc = "ready"
    /\ var_count < MaxCount
    /\ LET r == infer(term, context, var_count)
       IN /\ result' = Started(var_count, r)
          /\ var_count' = r.cnt
          /\ fresh' = fresh \o r.fresh
    /\ pc' = "done"
    /\ UNCHANGED <<term, context, result2>>
    /\ UNCHANGED unifyVars /\ UNCHANGED substVars

InferAgain ==
    /\ pc = "done"
    /\ var_count < MaxCount
    /\ LET r == infer(term, context, var_count)
       IN /\ result2' = Started(var_count, r)
          /\ var_count' = r.cnt
          /\ fresh' = fresh \o r.fresh
    /\ pc' = "redone"
    /\ UNCHANGED <<term, context, result>>
    /\ UNCHANGED unifyVars /\ UNCHANGED substVars

Load ==
    /\ pc \in {"done", "redone"}
    /\ term' \in InferTerms
    /\ context' \in InferContexts
    /\ result' = Unset /\ result2' = Unset
    /\ pc' = "ready"
    /\ UNCHANGED <<var_count, fresh>>
    /\ UNCHANGED unifyVars /\ UNCHANGED substVars

Next == Infer \/ InferAgain \/ Load

Spec == Init /\ [][Next]_vars

-----------------------------------------------------------------------------
(* Unification of a pair of terms, in both orders *)

UVars == {Var("x"), Var("y")}

UAtoms == UVars \cup Lits

UKids == {<<a, b>> : a \in UAtoms, b \in UAtoms}

UCompound ==
    {TypeConstructor("C", k) : k \in UKids}
    \cup {Application(k[1], k[2]) : k \in UKids}
    \cup {DependantType("p", k[1], k[2]) : k \in UKids}
    \cup {Abstraction("p", k[1], k[2]) : k \in UKids}
    \cup {TypeConstructor("C", <<a>>) : a \in UAtoms}

UDeep ==
    {TypeConstructor("C", <<TypeConstructor("C", <<Var("x"), Var("y")>>), Var("x")>>),
     TypeConstructor("C", <<Var("y"), TypeConstructor("C", <<Var("x"), NatTerm(0)>>)>>),
     Application(Application(Var("x"), Var("y")), Var("x")),
     Application(Var("y"), Application(Var("x"), NatTerm(0))),
     TypeConstructor("C", <<Abstraction("p", NatType, Var("x")), Var("y")>>)}

UTerms == UAtoms \cup {WildCard, NatType, BoolType} \cup UCompound \cup UDeep

\* the TypeConstructor with the function and argument of an Application as args
AsConstructor(app) == TypeConstructor("C", app.kids)

UInit ==
    /\ t1 \in UTerms
    /\ t2 \in UTerms
    /\ r12 = NoUnifier /\ r21 = NoUnifier /\ rcon = NoUnifier
    /\ pc = "start"
    /\ InferIdle /\ SubstIdle

UnifyForward ==
    /\ pc = "start"
    /\ r12' = unify(t1, t2)
    /\ pc' = "forward"
    /\ UNCHANGED <<t1, t2, r21, rcon>>
    /\ UNCHANGED inferVars /\ UNCHANGED substVars

UnifyBackward ==
    /\ pc = "forward"
    /\ r21' = unify(t2, t1)
    /\ pc' = "both"
    /\ UNCHANGED <<t1, t2, r12, rcon>>
    /\ UNCHANGED inferVars /\ UNCHANGED substVars

UnifyAsConstructors ==
    /\ pc = "both"
    /\ t1.tag = "App" /\ t2.tag = "App"
    /\ rcon' = unify(AsConstructor(t1), AsConstructor(t2))
    /\ pc' = "rebuilt"
    /\ UNCHANGED <<t1, t2, r12, r21>>
    /\ UNCHANGED inferVars /\ UNCHANGED substVars

UNext == UnifyForward \/ UnifyBackward \/ UnifyAsConstructors

USpec == UInit /\ [][UNext]_vars

-----------------------------------------------------------------------------
(* Substitutions applied to a term: the empty one, two in turn, and their   *)
(* composition                                                              *)

SNames == {"x", "y"}

SVals == Lits \cup {Var("x"), Var("y"),
                    TypeConstructor("C", <<Var("x"), Var("y")>>),
                    Abstraction("p", NatType, Var("x"))}

Substs == UNION {[d -> SVals] : d \in SUBSET SNames}

STerms ==
    Lits \cup {Var("x"), Var("y"), Var("z"), WildCard, NatType,
               TypeConstructor("C", <<Var("x"), Var("y")>>),
               Arrow(Var("y"), NatTerm(0)),
               DependantType("x", Var("x"), Var("y")),
               Abstraction("x", NatType, Var("x")),
               Application(Var("x"), Var("y")),
               Application(Abstraction("x", NatType, Var("x")), Var("y")),
               TypeConstructor("C", <<WildCard, DependantType("p", NatTerm(0), Var("y"))>>)}

SInit ==
    /\ s1 \in Substs
    /\ s2 \in Substs
    /\ tx \in STerms
    /\ applied = [empty |-> NoneVal, turn |-> NoneVal, comp |-> NoneVal]
    /\ pc = "start"
    /\ InferIdle /\ UnifyIdle

ApplyEmpty ==
    /\ pc = "start"
    /\ applied' = [applied EXCEPT !.empty = Apply(EmptySub, tx)]
    /\ pc' = "emptied"
    /\ UNCHANGED <<s1, s2, tx>>
    /\ UNCHANGED inferVars /\ UNCHANGED unifyVars

ApplyInTurn ==
    /\ pc = "emptied"
    /\ applied' = [applied EXCEPT !.turn = Apply(s2, Apply(s1, tx))]
    /\ pc' = "turned"
    /\ UNCHANGED <<s1, s2, tx>>
    /\ UNCHANGED inferVars /\ UNCHANGED unifyVars

ApplyComposed ==
    /\ pc = "turned"
    /\ applied' = [applied EXCEPT !.comp = Apply(Compose(s2, s1), tx)]
    /\ pc' = "composed"
    /\ UNCHANGED <<s1, s2, tx>>
    /\ UNCHANGED inferVars /\ UNCHANGED unifyVars

SNext == ApplyEmpty \/ ApplyInTurn \/ ApplyComposed

SSpec == SInit /\ [][SNext]_vars

-----------------------------------------------------------------------------
(* Properties *)

\* C1: whenever unify(t1, t2) returns a substitution s, s applied to t1 and
\* s applied to t2 are structurally equal.
UnifySound ==
    (pc \in {"forward", "both", "rebuilt"} /\ r12.ok)
        => Apply(r12.map, t1) = Apply(r12.map, t2)

\* C2: the composed substitution s2(s1) applied to a term gives what s2
\* applied to (s1 applied to the term) gives.
CompositionLaw == pc = "composed" => applied.comp = applied.turn

\* two substitutions that bind a common name, s2 rewriting a value of s1,
\* composed and applied to a term they change
CompositionWitness ==
    /\ pc = "composed"
    /\ DOMAIN s1 \cap DOMAIN s2 # {}
    /\ \E k \in DOMAIN s1 : s1[k].tag = "Con" /\ Apply(s2, s1[k]) # s1[k]
    /\ tx = TypeConstructor("C", <<Var("x"), Var("y")>>)
    /\ applied.comp # tx
    /\ applied.comp.tag = "Con"

\* C3: the empty substitution applied to a term of any variant returns a
\* term structurally identical to it.
EmptyIsIdentity == pc \in {"emptied", "turned", "composed"} => applied.empty = tx

\* C4: unify(t1, t2) returns a substitution exactly when unify(t2, t1) does.
UnifySymmetric == pc \in {"both", "rebuilt"} => (r12.ok <=> r21.ok)

\* both orders succeed on two constructors, with different bindings
SymmetricWitness ==
    /\ pc = "both"
    /\ t1.tag = "Con" /\ t2.tag = "Con"
    /\ r12.ok /\ r21.ok
    /\ r12.map # r21.map

\* C5: a second infer on the same term and context returns the outcome the
\* first returned (same error, or equal substitution and classifier, names
\* of variables included).
InferDeterministic ==
    pc = "redone" => Outcome(result2.r) = Outcome(result.r)

NoRepeat(names) ==
    \A i, j \in DOMAIN names : i # j => names[i] # names[j]

\* C6: every fresh name generated in the process differs from every fresh
\* name generated before it, and the counter never decreases.
FreshNamesDistinct ==
    /\ [](NoRepeat(fresh))
    /\ [][var_count' >= var_count]_vars

\* several inferences have generated fresh names, in both ways: by a
\* WildCard and as the result variable of an Application
FreshWitness ==
    /\ pc = "redone"
    /\ Len(fresh) >= 4
    /\ term.tag = "App" /\ term.kids[2].tag = "Wild"
    /\ Len(result.r.fresh) = 2 /\ Len(result2.r.fresh) = 2

RECURSIVE VarNames(_)
VarNames(x) ==
    IF x.tag = "Var" THEN {x.name}
    ELSE UNION {VarNames(x.kids[i]) : i \in 1..Len(x.kids)}

UserNames(x, ctx) == VarNames(x) \cup UNION {VarNames(ctx[k]) : k \in DOMAIN ctx}

\* C7: no fresh name generated while inferring a term is the name of a
\* Variable of that term or of a classifier stored in the context.
FreshAvoidsUserNames ==
    pc \in {"done", "redone"} =>
        \A i \in DOMAIN result.r.fresh :
            result.r.fresh[i] \notin UserNames(term, context)

\* C8: the context a binder's body is inferred in is the context the binder
\* was given plus one binding for the parameter: every other name keeps its
\* classifier, and no other name appears.
BinderExtendsContext ==
    pc \in {"done", "redone"} =>
        \A e \in result.r.enters :
            /\ DOMAIN e.inner = DOMAIN e.outer \cup {e.param}
            /\ \A n \in DOMAIN e.outer \ {e.param} : e.inner[n] = e.outer[n]

\* C9: an Application whose function and argument infer to (s1, t1) and
\* (s2, t2) in the same context, b being the next fresh variable: when
\* unify(t1, t2 -> b) has no unifier infer returns the unification failure,
\* otherwise it returns s3(s2(s1)) and s3(b).  The identity on Nat applied
\* to a literal has classifier Nat; the identity on Bool applied to a
\* literal fails.
ApplicationRule ==
    (pc \in {"done", "redone"} /\ term.tag = "App") =>
        LET rf == infer(term.kids[1], context, result.start)
            ra == infer(term.kids[2], context, rf.cnt)
            b == Var(FreshName(ra.cnt + 1))
            arrow == TypeConstructor("->", <<ra.typ, b>>)
            s3 == unify(rf.typ, arrow)
        IN /\ (rf.ok /\ ra.ok /\ ~s3.ok) =>
                /\ ~result.r.ok
                /\ result.r.msg = FailedUnification(rf.typ, arrow)
           /\ (rf.ok /\ ra.ok /\ s3.ok) =>
                /\ result.r.ok
                /\ result.r.sub = Compose(s3.map, Compose(ra.sub, rf.sub))
                /\ result.r.typ = Apply(s3.map, b)
                /\ b.name \notin DOMAIN s3.map => result.r.typ = b
           /\ term = ScenarioC => (result.r.ok /\ result.r.typ = NatType)
           /\ term = ScenarioD =>
                (~result.r.ok /\ result.r.msg.left = Arrow(BoolType, BoolType))

\* the identity on Nat applied to a literal has been inferred, after other
\* inferences moved the counter
ApplicationWitness ==
    /\ pc = "done"
    /\ term = ScenarioC
    /\ result.start > 0
    /\ result.r.ok
    /\ result.r.typ = NatType
    /\ DOMAIN result.r.sub # {}

\* C10: unifying two Applications succeeds exactly when unifying the two
\* TypeConstructors with the same function and argument parts succeeds, and
\* then both return the same substitution.
ApplicationLikeConstructor ==
    pc = "rebuilt" =>
        /\ r12.ok <=> rcon.ok
        /\ r12.ok => r12.map = rcon.map

====
